---------------------------- MODULE Spec2Model ----------------------------
(***************************************************************************)
(* Model of src/src/RJSArray.cpp: the JavaScriptCore class "RealmArray",   *)
(* an array-like view of a realm::List (an ordered list of links to rows   *)
(* of one table).                                                          *)
(*                                                                         *)
(* The state is the link list itself (the sequence of target row indices), *)
(* whether the list is still attached, whether the owning realm is in a    *)
(* write transaction, and a record of the last host call: which entry      *)
(* point, its arguments, the list before the call and what the call gave   *)
(* back to the host.  The host takes the result (Continue) before it calls *)
(* again.  `earlier` remembers the call before the last one when that was  *)
(* a shift() that returned an element, for the properties about shift()    *)
(* followed by pop(), or a read of a property that the host repeats.       *)
(***************************************************************************)
EXTENDS Integers, Sequences, FiniteSets, TLC

VARIABLES list, attached, in_transaction, call, pre, result, earlier

vars == <<list, attached, in_transaction, call, pre, result, earlier>>

---------------------------------------------------------------------------
(* Bounds of the model. *)

\* longest link list the model lets the growing operations build
MaxLen == 3
\* rows of the target table are 1..MaxRow
MaxRow == 3
\* most values handed to push / unshift, and most inserted values of splice
MaxArgs == 2
\* splice is called with start in -MaxNum..MaxNum and deleteCount in -1..MaxNum
MaxNum == 2

Rows == 1..MaxRow

---------------------------------------------------------------------------
(* Host (JavaScript) values.  t = "obj": a Realm object wrapper of row v;  *)
(* t = "bad": a value the accessor cannot turn into an object of the       *)
(* list's schema; t = "num": the integral number v.                        *)

JSRealmObject(row) == [t |-> "obj", v |-> row]
JSBadValue == [t |-> "bad", v |-> 0]
JSNum(n) == [t |-> "num", v |-> n]

ElementValues == {JSRealmObject(r) : r \in Rows} \cup {JSBadValue}

RECURSIVE SeqsUpTo(_, _)
SeqsUpTo(S, n) ==
    IF n = 0 THEN {<<>>}
    ELSE LET shorter == SeqsUpTo(S, n - 1)
         IN  shorter \cup {Append(s, x) : s \in {q \in shorter : Len(q) = n - 1}, x \in S}

ArgLists == SeqsUpTo(ElementValues, MaxArgs)

---------------------------------------------------------------------------
(* Property names are strings, modelled as sequences of characters.        *)

Digits == <<"0", "1", "2", "3", "4", "5", "6", "7", "8", "9">>

IsDigit(c) == \E d \in 1..10 : Digits[d] = c

DigitVal(c) == (CHOOSE d \in 1..10 : Digits[d] = c) - 1

LengthKey == <<"l", "e", "n", "g", "t", "h">>

\* sprintf(str, "%zu", i)
RECURSIVE Sprintf(_)
Sprintf(n) ==
    IF n < 10 THEN <<Digits[n + 1]>>
    ELSE Append(Sprintf(n \div 10), Digits[(n % 10) + 1])

Keys ==
    {Sprintf(i) : i \in 0..MaxLen}
        \cup {LengthKey, <<"1", "0">>, <<"-", "1">>, <<"f", "o", "o">>,
              <<"1", "x">>, <<" ", "2">>, <<>>}

---------------------------------------------------------------------------
(* Exceptions.  A computation gives [exc, msg, val]: exc = "none" and the  *)
(* value val, or the C++ type of the exception thrown and what it says.    *)

Return(v) == [exc |-> "none", msg |-> "", val |-> v]
Throw(type, what) == [exc |-> type, msg |-> what, val |-> 0]

\* std::stol(indexStr): leading white space, an optional sign, then the
\* longest run of digits; what follows the digits is ignored.
RECURSIVE ParseDigits(_, _, _)
ParseDigits(s, i, acc) ==
    IF i <= Len(s) /\ IsDigit(s[i])
    THEN ParseDigits(s, i + 1, 10 * acc + DigitVal(s[i]))
    ELSE acc

RECURSIVE SkipSpace(_, _)
SkipSpace(s, i) == IF i <= Len(s) /\ s[i] = " " THEN SkipSpace(s, i + 1) ELSE i

stol(s) ==
    LET b == SkipSpace(s, 1)
        neg == b <= Len(s) /\ s[b] = "-"
        d == IF b <= Len(s) /\ s[b] \in {"-", "+"} THEN b + 1 ELSE b
    IN  IF d <= Len(s) /\ IsDigit(s[d])
        THEN Return(IF neg THEN 0 - ParseDigits(s, d, 0) ELSE ParseDigits(s, d, 0))
        ELSE Throw("invalid_argument", "NotAnIndex")

RJSValidatedPositiveIndex(indexStr) ==
    LET index == stol(indexStr)
    IN  IF index.exc # "none" THEN index
        ELSE IF index.val < 0 THEN Throw("out_of_range", "OutOfRange")
        ELSE index

\* RJSAccessor::to_object_index: the row of the object the value stands for
to_object_index(value) ==
    IF value.t = "obj" THEN Return(value.v)
    ELSE Throw("runtime_error", "CoercionError")

\* RJSObjectCreate(ctx, Object(realm, object_schema, row))
RJSObjectCreate(row) == JSRealmObject(row)

RJSValidatedValueToNumber(value) ==
    IF value.t = "num" THEN Return(value.v)
    ELSE Throw("invalid_argument", "NotANumber")

RJSValidateArgumentCount(argumentCount, expected) ==
    IF argumentCount # expected THEN Throw("invalid_argument", "ArgumentCountError")
    ELSE Return(0)

RJSValidateArgumentCountIsAtLeast(argumentCount, expected) ==
    IF argumentCount < expected THEN Throw("invalid_argument", "ArgumentCountError")
    ELSE Return(0)

Min(a, b) == IF a < b THEN a ELSE b
Max(a, b) == IF a > b THEN a ELSE b

---------------------------------------------------------------------------
(* realm::List and its LinkView; offsets are 0-based as in the code.       *)

\* List::verify_attached
verify_attached(att) ==
    IF att THEN Return(0) ELSE Throw("runtime_error", "StaleReferenceError")

\* List::get(row_ndx), with its range check
ListGet(lst, ndx) ==
    IF ndx >= Len(lst) THEN Throw("out_of_range", "OutOfRange")
    ELSE Return(lst[ndx + 1])

\* List::set(row_ndx, target), with its range check
ListSet(lst, ndx, target) ==
    IF ndx >= Len(lst) THEN Throw("out_of_range", "OutOfRange")
    ELSE Return([lst EXCEPT ![ndx + 1] = target])

\* LinkView::add
LinkViewAdd(lst, target) == Append(lst, target)

\* LinkView::insert(ndx, target)
LinkViewInsert(lst, ndx, target) ==
    SubSeq(lst, 1, ndx) \o <<target>> \o SubSeq(lst, ndx + 1, Len(lst))

\* LinkView::remove(ndx)
LinkViewRemove(lst, ndx) ==
    SubSeq(lst, 1, ndx) \o SubSeq(lst, ndx + 2, Len(lst))

---------------------------------------------------------------------------
(* What a host call gives back: the JSValueRef (or bool) it returns and    *)
(* the exception it stores through jsException.                            *)

NoResult == [kind |-> "none", err |-> "", num |-> 0, objs |-> <<>>]
\* JSValueMakeNumber
JSNumber(n) == [kind |-> "number", err |-> "", num |-> n, objs |-> <<>>]
\* JSValueMakeUndefined: "no value"
JSUndefined == [kind |-> "undefined", err |-> "", num |-> 0, objs |-> <<>>]
\* NULL (or false) with no exception stored: the property is not handled here
JSDefer == [kind |-> "defer", err |-> "", num |-> 0, objs |-> <<>>]
\* NULL (or false) with *jsException = RJSMakeError(ctx, exp)
JSError(what) == [kind |-> "error", err |-> what, num |-> 0, objs |-> <<>>]
\* a wrapped object of one row
JSObject(row) == [kind |-> "object", err |-> "", num |-> 0, objs |-> <<RJSObjectCreate(row)>>]
\* JSObjectMakeArray
JSArray(objects) == [kind |-> "array", err |-> "", num |-> Len(objects), objs |-> objects]
\* the property names added to the accumulator
JSNames(names) == [kind |-> "names", err |-> "", num |-> Len(names), objs |-> names]
\* true returned by the setter
JSTrue == [kind |-> "true", err |-> "", num |-> 0, objs |-> <<>>]
\* a C++ exception that leaves the callback through the frames of the host
\* runtime: whatever the build does with it, no error value reaches the caller
Uncaught(what) == [kind |-> "uncaught", err |-> what, num |-> 0, objs |-> <<>>]

\* the outcome of an entry point: the list it leaves and what it gives back
Outcome(lst, res) == [list |-> lst, result |-> res]

---------------------------------------------------------------------------
(* The guards.                                                             *)

RJSVerifiedArray(att) == verify_attached(att)

\* the guard with the transaction test ahead of the attachment test
RJSVerifiedMutableArray_TransactionFirst(att, tx) ==
    IF ~tx THEN Throw("runtime_error", "IllegalMutationError")
    ELSE RJSVerifiedArray(att)

\* the guard without line 35: any attached list may be mutated
RJSVerifiedMutableArray_NoTransactionCheck(att, tx) == RJSVerifiedArray(att)

RJSVerifiedMutableArray(att, tx) ==
    LET v == RJSVerifiedArray(att)
    IN  IF v.exc # "none" THEN v
        ELSE IF ~tx THEN Throw("runtime_error", "IllegalMutationError")
        ELSE Return(0)

---------------------------------------------------------------------------
(* The property callbacks.                                                 *)

\* the getter behind the guard of the mutating functions
ArrayGetProperty_Mutable(lst, att, propertyName) ==
    LET v == RJSVerifiedMutableArray(att, FALSE)
        size == Len(lst)
        index == RJSValidatedPositiveIndex(propertyName)
        got == ListGet(lst, index.val)
        thrown == IF v.exc # "none" THEN v
                  ELSE IF propertyName = LengthKey THEN Return(0)
                  ELSE IF index.exc # "none" THEN index
                  ELSE got
    IN  IF thrown.exc = "out_of_range" THEN JSUndefined
        ELSE IF thrown.exc = "invalid_argument" THEN JSDefer
        ELSE IF thrown.exc # "none" THEN JSError(thrown.msg)
        ELSE IF propertyName = LengthKey THEN JSNumber(size)
        ELSE JSObject(got.val)

ArrayGetProperty(lst, att, propertyName) ==
    LET v == RJSVerifiedArray(att)
        size == Len(lst)
        index == RJSValidatedPositiveIndex(propertyName)
        got == ListGet(lst, index.val)
        thrown == IF v.exc # "none" THEN v
                  ELSE IF propertyName = LengthKey THEN Return(0)
                  ELSE IF index.exc # "none" THEN index
                  ELSE got
    IN  IF thrown.exc = "out_of_range" THEN JSUndefined
        ELSE IF thrown.exc = "invalid_argument" THEN JSDefer
        ELSE IF thrown.exc # "none" THEN JSError(thrown.msg)
        ELSE IF propertyName = LengthKey THEN JSNumber(size)
        ELSE JSObject(got.val)

\* the setter without lines 74-76: "length" goes on to std::stol
ArraySetProperty_NoLengthCheck(lst, att, tx, propertyName, value, indexFirst) ==
    LET v == RJSVerifiedMutableArray(att, tx)
        index == RJSValidatedPositiveIndex(propertyName)
        target == to_object_index(value)
        args == IF indexFirst
                THEN (IF index.exc # "none" THEN index ELSE target)
                ELSE (IF target.exc # "none" THEN target ELSE index)
        set == ListSet(lst, index.val, target.val)
        thrown == IF v.exc # "none" THEN v
                  ELSE IF args.exc # "none" THEN args
                  ELSE set
    IN  IF thrown.exc = "invalid_argument" THEN Outcome(lst, JSDefer)
        ELSE IF thrown.exc # "none" THEN Outcome(lst, JSError(thrown.msg))
        ELSE Outcome(set.val, JSTrue)

\* the setter with the getter's handler for std::out_of_range (lines 54-57)
ArraySetProperty_RangeIgnored(lst, att, tx, propertyName, value, indexFirst) ==
    LET v == RJSVerifiedMutableArray(att, tx)
        index == RJSValidatedPositiveIndex(propertyName)
        target == to_object_index(value)
        args == IF indexFirst
                THEN (IF index.exc # "none" THEN index ELSE target)
                ELSE (IF target.exc # "none" THEN target ELSE index)
        set == ListSet(lst, index.val, target.val)
        thrown == IF v.exc # "none" THEN v
                  ELSE IF propertyName = LengthKey
                       THEN Throw("runtime_error", "ReadOnlyPropertyError")
                  ELSE IF args.exc # "none" THEN args
                  ELSE set
    IN  IF thrown.exc = "out_of_range" THEN Outcome(lst, JSTrue)
        ELSE IF thrown.exc = "invalid_argument" THEN Outcome(lst, JSDefer)
        ELSE IF thrown.exc # "none" THEN Outcome(lst, JSError(thrown.msg))
        ELSE Outcome(set.val, JSTrue)

\* the setter with link_view->insert in place of list->set
ArraySetProperty_Insert(lst, att, tx, propertyName, value, indexFirst) ==
    LET v == RJSVerifiedMutableArray(att, tx)
        index == RJSValidatedPositiveIndex(propertyName)
        target == to_object_index(value)
        args == IF indexFirst
                THEN (IF index.exc # "none" THEN index ELSE target)
                ELSE (IF target.exc # "none" THEN target ELSE index)
        set == ListSet(lst, index.val, target.val)
        thrown == IF v.exc # "none" THEN v
                  ELSE IF propertyName = LengthKey
                       THEN Throw("runtime_error", "ReadOnlyPropertyError")
                  ELSE IF args.exc # "none" THEN args
                  ELSE set
    IN  IF thrown.exc = "invalid_argument" THEN Outcome(lst, JSDefer)
        ELSE IF thrown.exc # "none" THEN Outcome(lst, JSError(thrown.msg))
        ELSE Outcome(LinkViewInsert(lst, index.val, target.val), JSTrue)

\* The two arguments of list->set(...) are evaluated in an order the
\* language leaves open: indexFirst chooses it.
ArraySetProperty(lst, att, tx, propertyName, value, indexFirst) ==
    LET v == RJSVerifiedMutableArray(att, tx)
        index == RJSValidatedPositiveIndex(propertyName)
        target == to_object_index(value)
        args == IF indexFirst
                THEN (IF index.exc # "none" THEN index ELSE target)
                ELSE (IF target.exc # "none" THEN target ELSE index)
        set == ListSet(lst, index.val, target.val)
        thrown == IF v.exc # "none" THEN v
                  ELSE IF propertyName = LengthKey
                       THEN Throw("runtime_error", "ReadOnlyPropertyError")
                  ELSE IF args.exc # "none" THEN args
                  ELSE set
    IN  IF thrown.exc = "invalid_argument" THEN Outcome(lst, JSDefer)
        ELSE IF thrown.exc # "none" THEN Outcome(lst, JSError(thrown.msg))
        ELSE Outcome(set.val, JSTrue)

\* the enumeration with i <= size as the loop test of line 98
ArrayPropertyNames_Inclusive(lst, att) ==
    LET v == RJSVerifiedArray(att)
        size == Len(lst)
    IN  IF v.exc # "none" THEN Uncaught(v.msg)
        ELSE JSNames([i \in 1..(size + 1) |-> Sprintf(i - 1)])

ArrayPropertyNames(lst, att) ==
    LET v == RJSVerifiedArray(att)
        size == Len(lst)
    IN  IF v.exc # "none" THEN Uncaught(v.msg)
        ELSE JSNames([i \in 1..size |-> Sprintf(i - 1)])

---------------------------------------------------------------------------
(* The mutating functions of RJSArrayFuncs.  A loop gives [list, exc]:     *)
(* the list as it is when the loop ends or throws.                         *)

Loop(lst, e) == [list |-> lst, exc |-> e, objs |-> <<>>]

\* the loop of push with insert(i, ...) of unshift in place of add(...)
RECURSIVE PushLoop_Insert(_, _, _)
PushLoop_Insert(lst, arguments, i) ==
    IF i >= Len(arguments) THEN Loop(lst, Return(0))
    ELSE LET target == to_object_index(arguments[i + 1])
         IN  IF target.exc # "none" THEN Loop(lst, target)
             ELSE PushLoop_Insert(LinkViewInsert(lst, i, target.val), arguments, i + 1)

\* for (i = 0; i < argumentCount; i++) array->link_view->add(to_object_index(arguments[i]))
RECURSIVE PushLoop(_, _, _)
PushLoop(lst, arguments, i) ==
    IF i >= Len(arguments) THEN Loop(lst, Return(0))
    ELSE LET target == to_object_index(arguments[i + 1])
         IN  IF target.exc # "none" THEN Loop(lst, target)
             ELSE PushLoop(LinkViewAdd(lst, target.val), arguments, i + 1)

\* push without line 109
ArrayPush_NoCountCheck(lst, att, tx, arguments) ==
    LET v == RJSVerifiedMutableArray(att, tx)
        loop == PushLoop(lst, arguments, 0)
    IN  IF v.exc # "none" THEN Outcome(lst, JSError(v.msg))
        ELSE IF loop.exc.exc # "none" THEN Outcome(loop.list, JSError(loop.exc.msg))
        ELSE Outcome(loop.list, JSNumber(Len(loop.list)))

ArrayPush(lst, att, tx, arguments) ==
    LET v == RJSVerifiedMutableArray(att, tx)
        count == RJSValidateArgumentCountIsAtLeast(Len(arguments), 1)
        loop == PushLoop(lst, arguments, 0)
    IN  IF v.exc # "none" THEN Outcome(lst, JSError(v.msg))
        ELSE IF count.exc # "none" THEN Outcome(lst, JSError(count.msg))
        ELSE IF loop.exc.exc # "none" THEN Outcome(loop.list, JSError(loop.exc.msg))
        ELSE Outcome(loop.list, JSNumber(Len(loop.list)))

\* pop without lines 129-131: size - 1 wraps and list->get throws
ArrayPop_NoEmptyCheck(lst, att, tx, arguments) ==
    LET v == RJSVerifiedMutableArray(att, tx)
        count == RJSValidateArgumentCount(Len(arguments), 0)
        size == Len(lst)
        index == size - 1
        got == IF size = 0 THEN Throw("out_of_range", "OutOfRange") ELSE ListGet(lst, index)
    IN  IF v.exc # "none" THEN Outcome(lst, JSError(v.msg))
        ELSE IF count.exc # "none" THEN Outcome(lst, JSError(count.msg))
        ELSE IF got.exc # "none" THEN Outcome(lst, JSError(got.msg))
        ELSE Outcome(LinkViewRemove(lst, index), JSObject(got.val))

ArrayPop(lst, att, tx, arguments) ==
    LET v == RJSVerifiedMutableArray(att, tx)
        count == RJSValidateArgumentCount(Len(arguments), 0)
        size == Len(lst)
        index == size - 1
        got == ListGet(lst, index)
    IN  IF v.exc # "none" THEN Outcome(lst, JSError(v.msg))
        ELSE IF count.exc # "none" THEN Outcome(lst, JSError(count.msg))
        ELSE IF size = 0 THEN Outcome(lst, JSUndefined)
        ELSE IF got.exc # "none" THEN Outcome(lst, JSError(got.msg))
        ELSE Outcome(LinkViewRemove(lst, index), JSObject(got.val))

\* the loop of unshift with insert(0, ...) in place of insert(i, ...)
RECURSIVE UnshiftLoop_AtZero(_, _, _)
UnshiftLoop_AtZero(lst, arguments, i) ==
    IF i >= Len(arguments) THEN Loop(lst, Return(0))
    ELSE LET target == to_object_index(arguments[i + 1])
         IN  IF target.exc # "none" THEN Loop(lst, target)
             ELSE UnshiftLoop_AtZero(LinkViewInsert(lst, 0, target.val), arguments, i + 1)

\* for (i = 0; i < argumentCount; i++) array->link_view->insert(i, to_object_index(arguments[i]))
RECURSIVE UnshiftLoop(_, _, _)
UnshiftLoop(lst, arguments, i) ==
    IF i >= Len(arguments) THEN Loop(lst, Return(0))
    ELSE LET target == to_object_index(arguments[i + 1])
         IN  IF target.exc # "none" THEN Loop(lst, target)
             ELSE UnshiftLoop(LinkViewInsert(lst, i, target.val), arguments, i + 1)

ArrayUnshift(lst, att, tx, arguments) ==
    LET v == RJSVerifiedMutableArray(att, tx)
        count == RJSValidateArgumentCountIsAtLeast(Len(arguments), 1)
        loop == UnshiftLoop(lst, arguments, 0)
    IN  IF v.exc # "none" THEN Outcome(lst, JSError(v.msg))
        ELSE IF count.exc # "none" THEN Outcome(lst, JSError(count.msg))
        ELSE IF loop.exc.exc # "none" THEN Outcome(loop.list, JSError(loop.exc.msg))
        ELSE Outcome(loop.list, JSNumber(Len(loop.list)))

\* shift that reads the element after it has removed the slot
ArrayShift_RemoveFirst(lst, att, tx, arguments) ==
    LET v == RJSVerifiedMutableArray(att, tx)
        count == RJSValidateArgumentCount(Len(arguments), 0)
        removed == LinkViewRemove(lst, 0)
        got == ListGet(removed, 0)
    IN  IF v.exc # "none" THEN Outcome(lst, JSError(v.msg))
        ELSE IF count.exc # "none" THEN Outcome(lst, JSError(count.msg))
        ELSE IF Len(lst) = 0 THEN Outcome(lst, JSUndefined)
        ELSE IF got.exc # "none" THEN Outcome(removed, JSError(got.msg))
        ELSE Outcome(removed, JSObject(got.val))

ArrayShift(lst, att, tx, arguments) ==
    LET v == RJSVerifiedMutableArray(att, tx)
        count == RJSValidateArgumentCount(Len(arguments), 0)
        got == ListGet(lst, 0)
    IN  IF v.exc # "none" THEN Outcome(lst, JSError(v.msg))
        ELSE IF count.exc # "none" THEN Outcome(lst, JSError(count.msg))
        ELSE IF Len(lst) = 0 THEN Outcome(lst, JSUndefined)
        ELSE IF got.exc # "none" THEN Outcome(lst, JSError(got.msg))
        ELSE Outcome(LinkViewRemove(lst, 0), JSObject(got.val))

\* the removal loop filling removedObjects from its far end
RECURSIVE SpliceRemoveLoop_Reversed(_, _, _, _, _)
SpliceRemoveLoop_Reversed(lst, index, remove, i, removedObjects) ==
    IF i >= remove THEN [list |-> lst, exc |-> Return(0), objs |-> removedObjects]
    ELSE LET got == ListGet(lst, index)
         IN  IF got.exc # "none" THEN [list |-> lst, exc |-> got, objs |-> removedObjects]
             ELSE SpliceRemoveLoop_Reversed(LinkViewRemove(lst, index), index, remove, i + 1,
                                            <<RJSObjectCreate(got.val)>> \o removedObjects)

\* for (i = 0; i < remove; i++) { removedObjects[i] = ...list->get(index); link_view->remove(index); }
RECURSIVE SpliceRemoveLoop(_, _, _, _, _)
SpliceRemoveLoop(lst, index, remove, i, removedObjects) ==
    IF i >= remove THEN [list |-> lst, exc |-> Return(0), objs |-> removedObjects]
    ELSE LET got == ListGet(lst, index)
         IN  IF got.exc # "none" THEN [list |-> lst, exc |-> got, objs |-> removedObjects]
             ELSE SpliceRemoveLoop(LinkViewRemove(lst, index), index, remove, i + 1,
                                   Append(removedObjects, RJSObjectCreate(got.val)))

\* the insertion loop with the coercion error of one value swallowed
RECURSIVE SpliceInsertLoop_SkipBad(_, _, _, _)
SpliceInsertLoop_SkipBad(lst, index, arguments, i) ==
    IF i >= Len(arguments) THEN Loop(lst, Return(0))
    ELSE LET target == to_object_index(arguments[i + 1])
         IN  IF target.exc # "none"
             THEN SpliceInsertLoop_SkipBad(lst, index, arguments, i + 1)
             ELSE SpliceInsertLoop_SkipBad(LinkViewInsert(lst, index + i - 2, target.val),
                                           index, arguments, i + 1)

\* the insertion loop with insert(index, ...) in place of insert(index + i - 2, ...)
RECURSIVE SpliceInsertLoop_AtIndex(_, _, _, _)
SpliceInsertLoop_AtIndex(lst, index, arguments, i) ==
    IF i >= Len(arguments) THEN Loop(lst, Return(0))
    ELSE LET target == to_object_index(arguments[i + 1])
         IN  IF target.exc # "none" THEN Loop(lst, target)
             ELSE SpliceInsertLoop_AtIndex(LinkViewInsert(lst, index, target.val),
                                           index, arguments, i + 1)

\* for (i = 2; i < argumentCount; i++) link_view->insert(index + i - 2, to_object_index(arguments[i]))
RECURSIVE SpliceInsertLoop(_, _, _, _)
SpliceInsertLoop(lst, index, arguments, i) ==
    IF i >= Len(arguments) THEN Loop(lst, Return(0))
    ELSE LET target == to_object_index(arguments[i + 1])
         IN  IF target.exc # "none" THEN Loop(lst, target)
             ELSE SpliceInsertLoop(LinkViewInsert(lst, index + i - 2, target.val),
                                   index, arguments, i + 1)

\* the start offset without the branch for a negative start (lines 188-190)
SpliceIndex_NoNegative(start, size) == Max(Min(start, size), 0)

\* long index = std::min<long>(start, size); if (index < 0) index = std::max<long>(size + index, 0);
\* size + index is computed in size_t and converted back to long, which gives
\* the signed sum for every size and every index that fit a long; the model
\* draws integral numbers of small magnitude only.
SpliceIndex(start, size) ==
    LET index == Min(start, size)
    IN  IF index < 0 THEN Max(size + index, 0) ELSE index

\* long remove = std::max<long>(deleteCount, 0); remove = std::min<long>(remove, size - index);
SpliceRemove(deleteCount, size, index) == Min(Max(deleteCount, 0), size - index)

ArraySplice(lst, att, tx, arguments) ==
    LET v == RJSVerifiedMutableArray(att, tx)
        size == Len(lst)
        count == RJSValidateArgumentCountIsAtLeast(Len(arguments), 2)
        start == RJSValidatedValueToNumber(arguments[1])
        index == SpliceIndex(start.val, size)
        deleteCount == RJSValidatedValueToNumber(arguments[2])
        remove == SpliceRemove(deleteCount.val, size, index)
        removed == SpliceRemoveLoop(lst, index, remove, 0, <<>>)
        inserted == SpliceInsertLoop(removed.list, index, arguments, 2)
    IN  IF v.exc # "none" THEN Outcome(lst, JSError(v.msg))
        ELSE IF count.exc # "none" THEN Outcome(lst, JSError(count.msg))
        ELSE IF start.exc # "none" THEN Outcome(lst, JSError(start.msg))
        ELSE IF deleteCount.exc # "none" THEN Outcome(lst, JSError(deleteCount.msg))
        ELSE IF removed.exc.exc # "none" THEN Outcome(removed.list, JSError(removed.exc.msg))
        ELSE IF inserted.exc.exc # "none" THEN Outcome(inserted.list, JSError(inserted.exc.msg))
        ELSE Outcome(inserted.list, JSArray(removed.objs))

---------------------------------------------------------------------------
(* The state machine: the host calls the entry points one at a time and    *)
(* synchronously; between calls the realm's owner opens and closes write   *)
(* transactions and may invalidate the list.                               *)

Lists == SeqsUpTo(Rows, MaxLen)

SpliceArgLists ==
    {<<>>, <<JSNum(0)>>}
        \cup {<<JSNum(s), JSNum(d)>> \o ins :
                 s \in (0 - MaxNum)..MaxNum, d \in (0 - 1)..MaxNum, ins \in ArgLists}

Call(op, key, args, indexFirst) ==
    [op |-> op, key |-> key, args |-> args, indexFirst |-> indexFirst]

NoCall == Call("none", <<>>, <<>>, TRUE)

NoEarlier == [op |-> "none", pre |-> <<>>, result |-> NoResult]

Init ==
    /\ list \in Lists
    /\ attached = TRUE
    /\ in_transaction \in BOOLEAN
    /\ call = NoCall
    /\ pre = list
    /\ result = NoResult
    /\ earlier = NoEarlier

\* no call is under way
Idle == call = NoCall

\* a call that ends the write transaction it ran in
Invoke_Committing(out) ==
    /\ pre' = list
    /\ list' = out.list
    /\ result' = out.result
    /\ in_transaction' = FALSE
    /\ UNCHANGED <<attached, earlier>>

\* a call that leaves `out` behind
Invoke(out) ==
    /\ pre' = list
    /\ list' = out.list
    /\ result' = out.result
    /\ UNCHANGED <<attached, in_transaction, earlier>>

\* the model stops at lists of MaxLen links
Bounded(out) == Len(out.list) <= MaxLen

\* a getter that takes the first link off the list it reads
Get_Removing ==
    \E key \in Keys :
        /\ Idle
        /\ call' = Call("Get", key, <<>>, TRUE)
        /\ Invoke(Outcome(IF attached /\ list # <<>> THEN Tail(list) ELSE list,
                          ArrayGetProperty(list, attached, key)))

Get ==
    \E key \in Keys :
        /\ Idle
        /\ call' = Call("Get", key, <<>>, TRUE)
        /\ Invoke(Outcome(list, ArrayGetProperty(list, attached, key)))

\* the host reads the same property once more, right after the first read
GetAgain ==
    /\ call.op = "Get"
    /\ earlier.op # "Get"
    /\ call' = call
    /\ pre' = list
    /\ list' = list
    /\ result' = ArrayGetProperty(list, attached, call.key)
    /\ earlier' = [op |-> call.op, pre |-> pre, result |-> result]
    /\ UNCHANGED <<attached, in_transaction>>

Set ==
    \E key \in Keys, value \in ElementValues, indexFirst \in BOOLEAN :
        /\ Idle
        /\ call' = Call("Set", key, <<value>>, indexFirst)
        /\ Invoke(ArraySetProperty(list, attached, in_transaction, key, value, indexFirst))

Enumerate ==
    /\ Idle
    /\ call' = Call("Enumerate", <<>>, <<>>, TRUE)
    /\ Invoke(Outcome(list, ArrayPropertyNames(list, attached)))

AppendValues ==
    \E arguments \in ArgLists :
        /\ Idle
        /\ Bounded(ArrayPush(list, attached, in_transaction, arguments))
        /\ call' = Call("Append", <<>>, arguments, TRUE)
        /\ Invoke(ArrayPush(list, attached, in_transaction, arguments))

RemoveLast ==
    \E arguments \in {<<>>, <<JSBadValue>>} :
        /\ Idle
        /\ call' = Call("RemoveLast", <<>>, arguments, TRUE)
        /\ Invoke(ArrayPop(list, attached, in_transaction, arguments))

Prepend ==
    \E arguments \in ArgLists :
        /\ Idle
        /\ Bounded(ArrayUnshift(list, attached, in_transaction, arguments))
        /\ call' = Call("Prepend", <<>>, arguments, TRUE)
        /\ Invoke(ArrayUnshift(list, attached, in_transaction, arguments))

RemoveFirst ==
    \E arguments \in {<<>>, <<JSBadValue>>} :
        /\ Idle
        /\ call' = Call("RemoveFirst", <<>>, arguments, TRUE)
        /\ Invoke(ArrayShift(list, attached, in_transaction, arguments))

Splice ==
    \E arguments \in SpliceArgLists :
        /\ Idle
        /\ Bounded(ArraySplice(list, attached, in_transaction, arguments))
        /\ call' = Call("Splice", <<>>, arguments, TRUE)
        /\ Invoke(ArraySplice(list, attached, in_transaction, arguments))

\* the host has the result of the call and goes on
Continue ==
    /\ ~Idle
    /\ call' = NoCall
    /\ pre' = list
    /\ result' = NoResult
    /\ earlier' = IF call.op = "RemoveFirst" /\ result.kind = "object"
                  THEN [op |-> call.op, pre |-> pre, result |-> result]
                  ELSE NoEarlier
    /\ UNCHANGED <<list, attached, in_transaction>>

\* a step of the realm's owner, between two calls
Environment ==
    /\ Idle
    /\ earlier' = NoEarlier
    /\ UNCHANGED <<list, call, pre, result>>

BeginTransaction ==
    /\ attached
    /\ ~in_transaction
    /\ in_transaction' = TRUE
    /\ UNCHANGED attached
    /\ Environment

CommitTransaction ==
    /\ attached
    /\ in_transaction
    /\ in_transaction' = FALSE
    /\ UNCHANGED attached
    /\ Environment

\* the object that owns the list is deleted: the list is detached for good
Detach ==
    /\ attached
    /\ attached' = FALSE
    /\ UNCHANGED in_transaction
    /\ Environment

Next ==
    \/ Get
    \/ GetAgain
    \/ Set
    \/ Enumerate
    \/ AppendValues
    \/ RemoveLast
    \/ Prepend
    \/ RemoveFirst
    \/ Splice
    \/ Continue
    \/ BeginTransaction
    \/ CommitTransaction
    \/ Detach

Spec == Init /\ [][Next]_vars

TypeOK ==
    /\ list \in Lists
    /\ pre \in Lists
    /\ attached \in BOOLEAN
    /\ in_transaction \in BOOLEAN

---------------------------------------------------------------------------
(* Properties.  In a state whose last call is an entry point, `pre` is the *)
(* list before that call, `list` the list after it, and attached and       *)
(* in_transaction are what they were during the call.                      *)

MutatingOps == {"Set", "Append", "RemoveLast", "RemoveFirst", "Prepend", "Splice"}
AllOps == MutatingOps \cup {"Get", "Enumerate"}

\* the last call used the decimal numeral of i as its key
KeyIsIndex(i) == call.key = Sprintf(i)

\* every value of the argument list is a Realm object
AllCoerce(values) == \A i \in 1..Len(values) : values[i].t = "obj"

\* the rows the values stand for
RowsOf(values) == [i \in 1..Len(values) |-> values[i].v]

\* C1: a mutation attempted on an attached list while no write transaction
\* is open fails with IllegalMutationError and leaves the collection
\* unchanged, whatever the key, the arguments or their number.
C1_NoTransactionNoMutation ==
    (call.op \in MutatingOps /\ attached /\ ~in_transaction)
        => (result = JSError("IllegalMutationError") /\ list = pre)

\* a splice with too few arguments, outside a transaction, on a list with links
C1_Witness ==
    /\ call.op = "Splice"
    /\ Len(call.args) < 2
    /\ attached
    /\ ~in_transaction
    /\ pre # <<>>
    /\ result.err = "IllegalMutationError"

\* C2: every operation on a detached list fails with StaleReferenceError,
\* handed to the caller as an error value, and changes nothing.
C2_DetachedReported ==
    (call.op \in AllOps /\ ~attached)
        => (result = JSError("StaleReferenceError") /\ list = pre)

\* C3 as stated: Set("length", x) on an attached list fails with
\* ReadOnlyPropertyError whether or not a write transaction is open.
C3_LengthAlwaysReadOnly ==
    (call.op = "Set" /\ call.key = LengthKey /\ attached)
        => (result = JSError("ReadOnlyPropertyError") /\ list = pre)

\* C3 as amended: Set("length", x) on an attached list always fails and
\* leaves the collection unchanged; the error is ReadOnlyPropertyError when
\* a write transaction is open and IllegalMutationError when none is.
C3_LengthNeverWritten ==
    (call.op = "Set" /\ call.key = LengthKey /\ attached)
        => /\ list = pre
           /\ result = IF in_transaction
                       THEN JSError("ReadOnlyPropertyError")
                       ELSE JSError("IllegalMutationError")

C3_Witness ==
    /\ call.op = "Set"
    /\ call.key = LengthKey
    /\ attached
    /\ in_transaction
    /\ pre # <<>>
    /\ result.err = "ReadOnlyPropertyError"

\* C4: on an attached list of length L, Get(i) returns the element at i for
\* 0 <= i < L, "no value" and no error for i >= L, and Get("length")
\* returns L; with or without a write transaction.
C4_GetReads ==
    (call.op = "Get" /\ attached)
        => /\ \A i \in 0..10 :
                KeyIsIndex(i) =>
                    IF i < Len(pre)
                    THEN result = JSObject(pre[i + 1])
                    ELSE result = JSUndefined
           /\ call.key = LengthKey => result = JSNumber(Len(pre))
           /\ list = pre

\* the last element of a full list read outside a write transaction
C4_Witness ==
    /\ call.op = "Get"
    /\ attached
    /\ ~in_transaction
    /\ Len(pre) = MaxLen
    /\ KeyIsIndex(MaxLen - 1)
    /\ result = JSObject(pre[MaxLen])
    /\ pre[MaxLen] # pre[1]

\* C5: inside a write transaction, Set(i, v) with an index i >= length is
\* reported as an error and never grows or changes the collection.
C5_SetPastEndFails ==
    (call.op = "Set" /\ attached /\ in_transaction)
        => \A i \in 0..10 :
               (KeyIsIndex(i) /\ i >= Len(pre))
                   => (result.kind = "error" /\ list = pre)

\* a value that coerces, assigned to the slot right after the last one
C5_Witness ==
    /\ call.op = "Set"
    /\ attached
    /\ in_transaction
    /\ pre # <<>>
    /\ KeyIsIndex(Len(pre))
    /\ call.args[1].t = "obj"
    /\ result = JSError("OutOfRange")

\* the last call ran inside a write transaction on an attached list
InWrite(op) == call.op = op /\ attached /\ in_transaction

\* C6: inside a write transaction, Append(v1..vk), k >= 1, of values that
\* all coerce keeps the first L elements, puts v1..vk at L..L+k-1 in
\* argument order and returns L+k, the length after the call.
C6_AppendAtEnd ==
    (InWrite("Append") /\ Len(call.args) >= 1 /\ AllCoerce(call.args))
        => /\ list = pre \o RowsOf(call.args)
           /\ result = JSNumber(Len(pre) + Len(call.args))
           /\ result.num = Len(list)

\* two different values appended to a list that has links
C6_Witness ==
    /\ InWrite("Append")
    /\ pre # <<>>
    /\ Len(call.args) = 2
    /\ AllCoerce(call.args)
    /\ call.args[1] # call.args[2]
    /\ list = pre \o RowsOf(call.args)
    /\ result.kind = "number"

\* C7: inside a write transaction, Prepend(v1..vk), k >= 1, of values that
\* all coerce leaves v1..vk followed by the old elements in their old
\* order, and returns L+k.
C7_PrependInOrder ==
    (InWrite("Prepend") /\ Len(call.args) >= 1 /\ AllCoerce(call.args))
        => /\ list = RowsOf(call.args) \o pre
           /\ result = JSNumber(Len(pre) + Len(call.args))

\* two different values prepended to a list that has links
C7_Witness ==
    /\ InWrite("Prepend")
    /\ pre # <<>>
    /\ Len(call.args) = 2
    /\ AllCoerce(call.args)
    /\ call.args[1] # call.args[2]
    /\ list[1] = call.args[1].v
    /\ result.kind = "number"

\* what RemoveFirst() and RemoveLast() leave and return on a list with links
RemovedEnd ==
    /\ (InWrite("RemoveFirst") /\ call.args = <<>> /\ pre # <<>>)
           => (result = JSObject(pre[1]) /\ list = Tail(pre))
    /\ (InWrite("RemoveLast") /\ call.args = <<>> /\ pre # <<>>)
           => (result = JSObject(pre[Len(pre)]) /\ list = SubSeq(pre, 1, Len(pre) - 1))

\* RemoveLast() has run right after RemoveFirst() ran on [x, y, z]
FirstThenLast ==
    /\ InWrite("RemoveLast")
    /\ call.args = <<>>
    /\ earlier.op = "RemoveFirst"
    /\ Len(earlier.pre) = 3

\* C8: on a list with links, inside a write transaction, RemoveFirst()
\* returns the element at offset 0 and RemoveLast() the one at offset
\* length-1, each removing just that slot and keeping the others in order;
\* RemoveFirst() then RemoveLast() on [x, y, z] returns x, then z, and
\* leaves [y].
C8_RemoveEnds ==
    /\ RemovedEnd
    /\ FirstThenLast
           => /\ earlier.result = JSObject(earlier.pre[1])
              /\ result = JSObject(earlier.pre[3])
              /\ list = <<earlier.pre[2]>>

\* both calls have run on a list [x, y, z] of three different elements
C8_Witness ==
    /\ FirstThenLast
    /\ earlier.pre[1] # earlier.pre[2]
    /\ earlier.pre[2] # earlier.pre[3]
    /\ earlier.pre[1] # earlier.pre[3]
    /\ earlier.result.kind = "object"
    /\ result.kind = "object"
    /\ Len(list) = 1

\* C9: on an empty list, inside a write transaction, RemoveLast() and
\* RemoveFirst() return "no value", report no error and leave it empty.
C9_RemoveFromEmpty ==
    ((InWrite("RemoveLast") \/ InWrite("RemoveFirst")) /\ call.args = <<>> /\ pre = <<>>)
        => (result = JSUndefined /\ list = <<>>)

C9_Witness ==
    /\ InWrite("RemoveLast")
    /\ call.args = <<>>
    /\ pre = <<>>
    /\ result.kind = "undefined"

\* the clamped start and delete count as the specification words them
ClampedStart(start, L) == IF start < 0 THEN Max(L + start, 0) ELSE Min(start, L)
ClampedDelete(deleteCount, L, s) == Max(0, Min(deleteCount, L - s))

\* C10: inside a write transaction, Splice(start, deleteCount, i1..ik) of
\* values that all coerce leaves old[0..s) ++ [i1..ik] ++ old[s+d..L), with
\* s = max(L + start, 0) if start < 0 else min(start, L) and
\* d = max(0, min(deleteCount, L - s)).
C10_SpliceLeaves ==
    (InWrite("Splice") /\ Len(call.args) >= 2
         /\ AllCoerce(SubSeq(call.args, 3, Len(call.args))))
        => LET L == Len(pre)
               s == ClampedStart(call.args[1].v, L)
               d == ClampedDelete(call.args[2].v, L, s)
           IN  list = SubSeq(pre, 1, s)
                        \o RowsOf(SubSeq(call.args, 3, Len(call.args)))
                        \o SubSeq(pre, s + d + 1, L)

\* a negative start inside the list, one element removed and one put in
C10_Witness ==
    /\ InWrite("Splice")
    /\ Len(call.args) = 3
    /\ AllCoerce(SubSeq(call.args, 3, Len(call.args)))
    /\ Len(pre) = 3
    /\ call.args[1].v = 0 - 2
    /\ call.args[2].v = 1
    /\ call.args[3].v # pre[2]
    /\ list = <<pre[1], call.args[3].v, pre[3]>>

\* the values splice is asked to insert
Inserts(arguments) == SubSeq(arguments, 3, Len(arguments))

\* C11: a Splice(start, deleteCount, ...) that succeeds returns the removed
\* elements old[s..s+d) in their old order, a sequence of length d that is
\* empty (not "no value") when d = 0; they are taken from the old list,
\* before anything is inserted.
C11_SpliceReturnsRemoved ==
    (InWrite("Splice") /\ Len(call.args) >= 2 /\ AllCoerce(Inserts(call.args)))
        => LET L == Len(pre)
               s == ClampedStart(call.args[1].v, L)
               d == ClampedDelete(call.args[2].v, L, s)
           IN  /\ result.kind = "array"
               /\ result.num = d
               /\ Len(result.objs) = d
               /\ \A i \in 1..d : result.objs[i] = JSRealmObject(pre[s + i])

\* two different elements removed where another value is put in
C11_Witness ==
    /\ InWrite("Splice")
    /\ Len(call.args) = 3
    /\ AllCoerce(Inserts(call.args))
    /\ Len(pre) = 3
    /\ call.args[1].v = 1
    /\ call.args[2].v = 2
    /\ pre[2] # pre[3]
    /\ call.args[3].v # pre[2]
    /\ result.objs = <<JSRealmObject(pre[2]), JSRealmObject(pre[3])>>

\* C12: Enumerate() on an attached list of length N gives the N names "0"
\* to "N-1" in ascending order and never "length", with or without a write
\* transaction; nothing for an empty list.
C12_EnumerateIndices ==
    (call.op = "Enumerate" /\ attached)
        => /\ result.kind = "names"
           /\ Len(result.objs) = Len(pre)
           /\ \A i \in 1..Len(pre) :
                  /\ result.objs[i] = <<Digits[i]>>
                  /\ ArrayGetProperty(pre, TRUE, result.objs[i]) = JSObject(pre[i])
           /\ \A i \in 1..Len(result.objs) : result.objs[i] # LengthKey
           /\ list = pre

\* a full list enumerated outside a write transaction
C12_Witness ==
    /\ call.op = "Enumerate"
    /\ attached
    /\ ~in_transaction
    /\ Len(pre) = MaxLen
    /\ result.objs[MaxLen] = Sprintf(MaxLen - 1)

\* C13: inside a write transaction on an attached list, Append and Prepend
\* with no argument and Splice with fewer than two fail with
\* ArgumentCountError and leave the collection unchanged.
C13_TooFewArguments ==
    /\ ((InWrite("Append") \/ InWrite("Prepend")) /\ Len(call.args) = 0)
           => (result = JSError("ArgumentCountError") /\ list = pre)
    /\ (InWrite("Splice") /\ Len(call.args) < 2)
           => (result = JSError("ArgumentCountError") /\ list = pre)

\* splice with its start only, on a list with links
C13_Witness ==
    /\ InWrite("Splice")
    /\ Len(call.args) = 1
    /\ pre # <<>>
    /\ result.err = "ArgumentCountError"

\* the position of the first value that does not coerce
FirstBad(values) ==
    CHOOSE j \in 1..Len(values) :
        /\ values[j].t # "obj"
        /\ \A k \in 1..(j - 1) : values[k].t = "obj"

\* the values before the first one that does not coerce
CoercedBefore(values) == RowsOf(SubSeq(values, 1, FirstBad(values) - 1))

\* C14: when the j-th value of Append, Prepend or Splice does not coerce,
\* the call reports a CoercionError, what was done for the values before it
\* stays (and for Splice the deleted range stays deleted), and nothing is
\* done for the failing value or the ones after it.
C14_PartialOnCoercionError ==
    /\ (InWrite("Append") /\ ~AllCoerce(call.args))
           => /\ result = JSError("CoercionError")
              /\ list = pre \o CoercedBefore(call.args)
    /\ (InWrite("Prepend") /\ ~AllCoerce(call.args))
           => /\ result = JSError("CoercionError")
              /\ list = CoercedBefore(call.args) \o pre
    /\ (InWrite("Splice") /\ Len(call.args) >= 2 /\ ~AllCoerce(Inserts(call.args)))
           => LET L == Len(pre)
                  s == ClampedStart(call.args[1].v, L)
                  d == ClampedDelete(call.args[2].v, L, s)
              IN  /\ result = JSError("CoercionError")
                  /\ list = SubSeq(pre, 1, s)
                               \o CoercedBefore(Inserts(call.args))
                               \o SubSeq(pre, s + d + 1, L)

\* splice removed two elements and inserted one value before the second failed
C14_Witness ==
    /\ InWrite("Splice")
    /\ Len(call.args) = 4
    /\ call.args[3].t = "obj"
    /\ call.args[4].t = "bad"
    /\ Len(pre) = 3
    /\ call.args[1].v = 1
    /\ call.args[2].v = 2
    /\ call.args[3].v # pre[2]
    /\ list = <<pre[1], call.args[3].v>>
    /\ result.err = "CoercionError"

FailsOnArguments ==
    \/ call.op \in {"Append", "Prepend"} /\ (call.args = <<>> \/ ~AllCoerce(call.args))
    \/ call.op \in {"RemoveLast", "RemoveFirst"} /\ call.args # <<>>
    \/ call.op = "Splice" /\ (Len(call.args) < 2 \/ ~AllCoerce(Inserts(call.args)))
    \/ call.op = "Set" /\ (\/ call.key = LengthKey
                           \/ RJSValidatedPositiveIndex(call.key).exc # "none"
                           \/ RJSValidatedPositiveIndex(call.key).val >= Len(pre)
                           \/ ~AllCoerce(call.args))

\* C16: the guards come first and in a fixed order: a mutating call on a
\* detached list gives StaleReferenceError even with no write transaction
\* open; with none open on an attached list it gives IllegalMutationError
\* even when its arguments are wrong too; and on a detached list no call
\* gives back anything read from the collection.
C16_GuardsFirst ==
    /\ (call.op \in MutatingOps /\ ~attached)
           => (result = JSError("StaleReferenceError") /\ list = pre)
    /\ (call.op \in MutatingOps /\ attached /\ ~in_transaction /\ FailsOnArguments)
           => (result = JSError("IllegalMutationError") /\ list = pre)
    /\ (call.op \in AllOps /\ ~attached)
           => /\ result.err = "StaleReferenceError"
              /\ result.num = 0
              /\ result.objs = <<>>
              /\ list = pre

\* a detached list with links, no transaction, and a value that does not coerce
C16_Witness ==
    /\ call.op = "Append"
    /\ ~attached
    /\ ~in_transaction
    /\ pre # <<>>
    /\ ~AllCoerce(call.args)
    /\ result.err = "StaleReferenceError"

\* the key is a base-10 integer: digits only, after an optional minus sign
IsInteger(key) ==
    LET digits == IF key # <<>> /\ key[1] = "-" THEN Tail(key) ELSE key
    IN  /\ digits # <<>>
        /\ \A i \in 1..Len(digits) : IsDigit(digits[i])

IsNegative(key) == IsInteger(key) /\ key[1] = "-"

\* C17: on an attached list Get reports no error; a key that is not a
\* base-10 integer (and not "length") is deferred, a negative integer or an
\* index >= length gives "no value", and no element is returned for a
\* negative key.  Inside a write transaction Set with a key that is not an
\* integer is deferred with no error and no change, and Set with a negative
\* key changes nothing.
C17_KeysResolved ==
    /\ (call.op = "Get" /\ attached)
           => /\ result.kind # "error"
              /\ (call.key # LengthKey /\ ~IsInteger(call.key)) => result = JSDefer
              /\ IsNegative(call.key) => result = JSUndefined
              /\ \A i \in 0..10 : (KeyIsIndex(i) /\ i >= Len(pre)) => result = JSUndefined
    /\ (InWrite("Set") /\ call.key # LengthKey /\ ~IsInteger(call.key))
           => (result = JSDefer /\ list = pre)
    /\ (InWrite("Set") /\ IsNegative(call.key)) => list = pre

\* the step is a call of one of the eight entry points
EntryPointStep == call'.op \in AllOps

\* C18: no call, whether it succeeds or fails, changes whether the list is
\* attached or whether a write transaction is open; a detached list stays
\* detached and every later call on it is rejected.
C18_StateObservedOnly ==
    [][/\ EntryPointStep
           => (attached' = attached /\ in_transaction' = in_transaction)
       /\ ~attached => ~attached'
       /\ (~attached /\ EntryPointStep)
           => (result'.err = "StaleReferenceError" /\ list' = list)]_vars

\* a splice that failed half way has left the write transaction open
C18_Witness ==
    /\ InWrite("Splice")
    /\ result.kind = "error"
    /\ list # pre

\* C19: inside a write transaction a Set(i, v) with 0 <= i < length and a
\* value that coerces replaces position i only: the length and every other
\* element stay, and a Get(i) that follows returns the element v stands for.
C19_SetReplacesOne ==
    (InWrite("Set") /\ AllCoerce(call.args))
        => \A i \in 0..10 :
               (KeyIsIndex(i) /\ i < Len(pre))
                   => /\ result = JSTrue
                      /\ Len(list) = Len(pre)
                      /\ \A j \in 1..Len(pre) : j # i + 1 => list[j] = pre[j]
                      /\ list[i + 1] = call.args[1].v
                      /\ ArrayGetProperty(list, attached, call.key)
                             = JSObject(call.args[1].v)

\* the middle one of three elements replaced by a different one
C19_Witness ==
    /\ InWrite("Set")
    /\ Len(pre) = 3
    /\ KeyIsIndex(1)
    /\ call.args[1].t = "obj"
    /\ call.args[1].v # pre[2]
    /\ list = <<pre[1], call.args[1].v, pre[3]>>
    /\ result.kind = "true"

\* the list splice(start, 0, values) leaves when run on the list before the call
SpliceInstead(start, values) ==
    ArraySplice(pre, attached, in_transaction, <<JSNum(start), JSNum(0)>> \o values).list

\* C20: for values that all coerce, Prepend(v1..vk) leaves the collection
\* Splice(0, 0, v1..vk) leaves, and Append(v1..vk) leaves the collection
\* Splice(L, 0, v1..vk) leaves, which is also what Splice(n, 0, v1..vk)
\* leaves for n > L.
C20_SpliceSubsumes ==
    /\ (InWrite("Prepend") /\ Len(call.args) >= 1 /\ AllCoerce(call.args))
           => list = SpliceInstead(0, call.args)
    /\ (InWrite("Append") /\ Len(call.args) >= 1 /\ AllCoerce(call.args))
           => \A n \in Len(pre)..(Len(pre) + MaxNum) : list = SpliceInstead(n, call.args)

\* two different values prepended to a list with links
C20_Witness ==
    /\ InWrite("Prepend")
    /\ Len(call.args) = 2
    /\ AllCoerce(call.args)
    /\ call.args[1] # call.args[2]
    /\ pre # <<>>
    /\ pre[1] # call.args[2].v
    /\ list = SpliceInstead(0, call.args)

====
